---- MODULE Spec2Model ----
(***************************************************************************)
(* NRFI predictor (NRFI_Predictions_v1.01.py): the fetch layer with its    *)
(* time-bounded caches, the scoring functions, the probability model and   *)
(* the orchestrator loop of one Streamlit script run.                      *)
(*                                                                         *)
(* Numbers.  Stat values and scores are decimal fixed point in thousandths *)
(* (era 2.50 is 2500, score 67.0 is 67000); a mean is kept as an exact     *)
(* fraction num/den; a value rounded by round(x, 2) is an integer number   *)
(* of hundredths.  IEEE rounding of the last bits of a double is not       *)
(* modelled; infinities and NaN are.  math.exp is evaluated by a           *)
(* fixed-point series (see exp_neg), so a probability of the model is      *)
(* within 0.01 percentage points of CPython's.                             *)
(***************************************************************************)
EXTENDS Integers, Sequences, FiniteSets, TLC

VARIABLES
    pc,             \* position of the script run
    run,            \* number of the current script run (Streamlit reruns the script)
    now,            \* wall clock, seconds
    json_cache,     \* st.cache_data store of fetch_json, keyed by URL
    sched_cache,    \* st.cache_data store of fetch_schedule, keyed by date
    stats_cache,    \* st.cache_data store of fetch_stats, keyed by <<player_id, group>>
    roster_cache,   \* st.cache_data store of fetch_roster, keyed by team id
    data,           \* fetch_schedule's local `data` of the last call
    games,          \* games_df, a sequence of Game rows
    i,              \* 1-based position of the loop in games_df
    pitchers,       \* the loop's `pitchers`
    p_score,        \* [home, away]: home_p_score, away_p_score
    rosters,        \* [home, away]: home_roster, away_roster
    hbuf,           \* stat mappings hitter_score has fetched so far for the team in hand
    h_score,        \* [home, away]: home_h_score, away_h_score
    team_rosters,   \* the per-run dict team_rosters
    results,        \* the list `results`
    shown,          \* the sequence handed to st.dataframe
    progress,       \* <<numerator, denominator>> of the last progress.progress call
    exc,            \* the uncaught exception that ended the run, or ""
    http,           \* URLs requested over HTTP during the last step
    last_call,      \* the resolver the last step called, with its argument
    roster_calls,   \* team ids fetch_roster was called with in this run, in order
    handled,        \* per finished loop iteration: the game, its pitcher ids, emitted or not
    call            \* the last evaluation of a scoring function: [fn, arg, ret]

vars == <<pc, run, now, json_cache, sched_cache, stats_cache, roster_cache, data,
          games, i, pitchers, p_score, rosters, hbuf, h_score, team_rosters,
          results, shown, progress, exc, http, last_call, roster_calls, handled,
          call>>

(***************************************************************************)
(* Bounds of the model.                                                    *)
(***************************************************************************)
MaxPlayers == 3      \* longest player list handed to hitter_score on its own
MaxRuns == 2         \* script runs in the cache scenario
MaxTicks == 2        \* clock ticks in the cache scenario
TickSeconds == 1800  \* seconds per clock tick

TTL == 3600          \* @st.cache_data(ttl=3600)

(***************************************************************************)
(* JSON values.  A dict is a function on its keys ({} is EmptyMap), a list *)
(* a sequence.  A stat value is tagged with what float() makes of it:      *)
(*   num  a JSON number (v thousandths)   str  a string float() parses     *)
(*   bad  a string such as "-.--"         null JSON null                   *)
(*   inf  "inf"/"-inf"/1e999 (v = sign)   nan  "nan"                       *)
(***************************************************************************)
EmptyMap == <<>>

Get(d, k, default) == IF k \in DOMAIN d THEN d[k] ELSE default

Num(n) == [t |-> "num", v |-> n]
Str(n) == [t |-> "str", v |-> n]
BadStr == [t |-> "bad", v |-> 0]
Null == [t |-> "null", v |-> 0]
InfStr(s) == [t |-> "inf", v |-> s]
NanStr == [t |-> "nan", v |-> 0]

\* The outcome of a call: a returned value or a raised exception.
Return(v) == [exc |-> "", val |-> v]
Raise(e) == [exc |-> e, val |-> <<>>]

(***************************************************************************)
(* Python floats: finite (thousandths), +-infinity, NaN.                   *)
(***************************************************************************)
Fin(n) == [k |-> "fin", v |-> n]
Inf(s) == [k |-> "inf", v |-> s]
NaN == [k |-> "nan", v |-> 0]

\* float(x): ValueError on an unparsable string, TypeError on None.
float(x) ==
    CASE x.t \in {"num", "str"} -> Return(Fin(x.v))
      [] x.t = "inf" -> Return(Inf(x.v))
      [] x.t = "nan" -> Return(NaN)
      [] x.t = "bad" -> Raise("ValueError")
      [] OTHER -> Raise("TypeError")

FNeg(a) == IF a.k = "nan" THEN a ELSE [k |-> a.k, v |-> 0 - a.v]

FAdd(a, b) ==
    CASE a.k = "nan" \/ b.k = "nan" -> NaN
      [] a.k = "inf" /\ b.k = "inf" -> IF a.v = b.v THEN a ELSE NaN
      [] a.k = "inf" -> a
      [] b.k = "inf" -> b
      [] OTHER -> Fin(a.v + b.v)

FSub(a, b) == FAdd(a, FNeg(b))

\* a * c for a finite constant c > 0
FMul(a, c) == IF a.k = "fin" THEN Fin(a.v * c) ELSE a

\* a < b; every comparison with NaN is false
FLt(a, b) ==
    CASE a.k = "nan" \/ b.k = "nan" -> FALSE
      [] a.k = "fin" /\ b.k = "fin" -> a.v < b.v
      [] a.k = "inf" /\ b.k = "inf" -> a.v < b.v
      [] a.k = "inf" -> a.v < 0
      [] OTHER -> b.v > 0

\* Python's min(a, b) is a unless b < a; max(a, b) is a unless b > a.
min(a, b) == IF FLt(b, a) THEN b ELSE a
max(a, b) == IF FLt(a, b) THEN b ELSE a

\* faulty variant: no clamp
clamp_unclamped(x) == x
\* max(0, min(100, x)) as the scoring functions write it
clamp(x) == max(Fin(0), min(Fin(100000), x))

(***************************************************************************)
(* Scores are fractions of thousandths: num/den, den > 0.                  *)
(***************************************************************************)
Frac(n, d) == [num |-> n, den |-> d]

\* round(q, 2) in hundredths, ties to even
round2(q) ==
    LET n == q.num
        d == 10 * q.den
        fl == n \div d
        r2 == 2 * (n - fl * d)
    IN  IF r2 > d \/ (r2 = d /\ fl % 2 = 1) THEN fl + 1 ELSE fl

(***************************************************************************)
(* pitcher_score (lines 52-60)                                             *)
(***************************************************************************)
\* faulty variant: a missing field raises, as stat[name] would
pitcher_fields_missing_fallback(stat) ==
    IF {"era", "strikeoutsPer9Inn", "walksPer9Inn"} \subseteq DOMAIN stat
    THEN <<float(stat["era"]), float(stat["strikeoutsPer9Inn"]),
           float(stat["walksPer9Inn"])>>
    ELSE <<Raise("KeyError"), Raise("KeyError"), Raise("KeyError")>>

\* the three float(stat.get(name, default)) conversions of the try block
pitcher_fields(stat) ==
    << float(Get(stat, "era", Num(5000))),
       float(Get(stat, "strikeoutsPer9Inn", Num(6000))),
       float(Get(stat, "walksPer9Inn", Num(3000))) >>

pitcher_score(stat) ==
    LET f == pitcher_fields(stat)
    IN  IF \E n \in 1..3 : f[n].exc # ""
        THEN Frac(50000, 1)
        ELSE LET era == f[1].val
                 k9 == f[2].val
                 bb9 == f[3].val
                 score == FAdd(FAdd(FMul(FSub(Fin(5000), era), 12),
                                    FMul(FSub(k9, Fin(6000)), 8)),
                               FMul(FSub(Fin(3000), bb9), 5))
             IN  Frac(clamp(score).v, 1)

(***************************************************************************)
(* hitter_score (lines 68-80), given the stat mapping fetch_stats returned *)
(* for each player id, in roster order.                                    *)
(***************************************************************************)
\* one pass of the loop body: the clamped value, or the exception
hitter_val(s) ==
    LET f == << float(Get(s, "avg", Num(250))),
                float(Get(s, "obp", Num(320))),
                float(Get(s, "slg", Num(400))) >>
    IN  IF \E n \in 1..3 : f[n].exc # ""
        THEN Raise("ValueError")
        ELSE LET val == FAdd(FAdd(FMul(FSub(f[1].val, Fin(250)), 100),
                                  FMul(FSub(f[2].val, Fin(320)), 80)),
                             FMul(FSub(f[3].val, Fin(400)), 60))
             IN  Return(clamp(val).v)

\* faulty variant: a player who fails to parse is scored 50
hitter_keep_default_scored(r) == IF r.exc = "" THEN <<r.val>> ELSE <<50000>>
\* on an exception the player is skipped (`continue`)
hitter_keep(r) == IF r.exc = "" THEN <<r.val>> ELSE <<>>

RECURSIVE hitter_scores(_)
hitter_scores(stats) ==
    IF stats = <<>> THEN <<>>
    ELSE hitter_keep(hitter_val(Head(stats))) \o hitter_scores(Tail(stats))

RECURSIVE sum(_)
sum(s) == IF s = <<>> THEN 0 ELSE Head(s) + sum(Tail(s))

hitter_score(stats) ==
    LET scores == hitter_scores(stats)
    IN  IF scores # <<>> THEN Frac(sum(scores), Len(scores)) ELSE Frac(50000, 1)

(***************************************************************************)
(* calculate_nrfi_probability (lines 83-88).  math.exp is evaluated in     *)
(* fixed point with ExpScale units to 1: e^-y is e^-frac(y), by its power  *)
(* series, times e^-1 once per unit of y.                                  *)
(***************************************************************************)
ExpScale == 32768    \* fixed-point unit of exp_neg
ExpInvE == 12055     \* e^-1 in ExpScale units
ExpTerms == 12       \* terms of the power series

RECURSIVE exp_series(_, _, _)
\* sum over n >= k of (-f)^n / n!, given term = f^(k-1) / (k-1)!
exp_series(f, k, term) ==
    IF k > ExpTerms \/ term = 0 THEN 0
    ELSE LET t == (term * f + (ExpScale * k) \div 2) \div (ExpScale * k)
         IN  (IF k % 2 = 1 THEN 0 - t ELSE t) + exp_series(f, k + 1, t)

RECURSIVE exp_times_inv_e(_, _)
exp_times_inv_e(u, k) ==
    IF k = 0 THEN u
    ELSE exp_times_inv_e((u * ExpInvE + ExpScale \div 2) \div ExpScale, k - 1)

\* e^(-y / ExpScale) in ExpScale units, y >= 0
exp_neg(y) ==
    exp_times_inv_e(ExpScale + exp_series(y % ExpScale, 1, ExpScale), y \div ExpScale)

Abs(n) == IF n < 0 THEN 0 - n ELSE n

\* (a + b) / 2
mean2(a, b) == Frac(a.num * b.den + b.num * a.den, 2 * a.den * b.den)

\* avg_pitch * 1.0 - avg_hit * 0.3
model_input(avg_pitch, avg_hit) ==
    Frac(10 * avg_pitch.num * avg_hit.den - 3 * avg_hit.num * avg_pitch.den,
         10 * avg_pitch.den * avg_hit.den)

\* round(100 / (1 + math.exp(-0.1 * (model_input - 25))), 2), in hundredths
logistic(m) ==
    LET t == 25000 * m.den - m.num           \* (25 - model_input) * m.den, thousandths
        a == Abs(t) \div m.den               \* |25 - model_input|, thousandths
        \* |0.1 * (model_input - 25)| in ExpScale units
        y == (a \div 10000) * ExpScale + ((a % 10000) * ExpScale + 5000) \div 10000
        u == exp_neg(y)
        n == IF t >= 0 THEN 10000 * u ELSE 10000 * ExpScale
        d == ExpScale + u
    IN  (2 * n + d) \div (2 * d)

calculate_nrfi_probability(p1_score, p2_score, h1_score, h2_score) ==
    logistic(model_input(mean2(p1_score, p2_score), mean2(h1_score, h2_score)))

(***************************************************************************)
(* The label of line 132 (the emoji of the source strings left out).       *)
(***************************************************************************)
\* faulty variant: >= 60
prediction_at_least_60(nrfi_prob) ==
    IF nrfi_prob >= 6000 THEN "NRFI"
    ELSE IF nrfi_prob < 4000 THEN "YRFI" ELSE "Toss-up"
prediction(nrfi_prob) ==
    IF nrfi_prob > 6000 THEN "NRFI"
    ELSE IF nrfi_prob < 4000 THEN "YRFI" ELSE "Toss-up"

(***************************************************************************)
(* The fetch layer.  An HTTP exchange either fails (network error, non-2xx *)
(* status, malformed body) or yields a JSON body.                          *)
(***************************************************************************)
Fail == [ok |-> FALSE, json |-> EmptyMap]
Ok(j) == [ok |-> TRUE, json |-> j]

\* fetch_json's body (lines 10-15): any failure becomes {}
fetch_json(out) == IF out.ok THEN out.json ELSE EmptyMap

\* the URLs of lines 20, 34, 46 and 64
ScheduleUrl(d) == <<"schedule", d>>
FeedUrl(game_id) == <<"feed", game_id>>
StatsUrl(player_id, group) == <<"stats", player_id, group>>
RosterUrl(team_id) == <<"roster", team_id>>

\* st.cache_data(ttl=3600): an entry answers until it is TTL seconds old
Fresh(cache, k) == k \in DOMAIN cache /\ now - cache[k].at < TTL
Put(cache, k, v) == (k :> [val |-> v, at |-> now]) @@ cache

\* what the decorated fetch_json returns for url when the exchange would yield out
JsonOf(url, out) ==
    IF Fresh(json_cache, url) THEN json_cache[url].val ELSE fetch_json(out)
JsonCacheAfter(url, out) ==
    IF Fresh(json_cache, url) THEN json_cache ELSE Put(json_cache, url, fetch_json(out))
JsonHttp(url) == IF Fresh(json_cache, url) THEN {} ELSE {url}

\* Python's `not x` for an optional id: None (<<>>) and 0 are falsy
Falsy(x) == x = <<>> \/ x[1] = 0

\* d.get(k) for an id: <<v>>, or <<>> for None
GetOpt(d, k) == IF k \in DOMAIN d THEN <<d[k]>> ELSE <<>>

RECURSIVE HasPath(_, _)
\* whether d[path[1]][path[2]]... can be subscripted without a KeyError
HasPath(d, path) ==
    \/ path = <<>>
    \/ /\ Head(path) \in DOMAIN d
       /\ HasPath(d[Head(path)], Tail(path))

\* the subscripts of lines 25-29
GameOk(game) ==
    /\ HasPath(game, <<"gamePk">>)
    /\ \A side \in {"away", "home"} :
          /\ HasPath(game, <<"teams", side, "team", "name">>)
          /\ HasPath(game, <<"teams", side, "team", "id">>)

GameRow(game) ==
    [game_id |-> game.gamePk,
     away |-> game.teams.away.team.name,
     home |-> game.teams.home.team.name,
     home_id |-> game.teams.home.team.id,
     away_id |-> game.teams.away.team.id]

\* fetch_schedule after its fetch_json call (lines 22-31)
schedule_games(d) ==
    LET dates == Get(d, "dates", <<EmptyMap>>)
    IN  IF dates = <<>> THEN Raise("IndexError")
        ELSE LET gl == Get(dates[1], "games", <<>>)
             IN  IF \E k \in 1..Len(gl) : ~GameOk(gl[k]) THEN Raise("KeyError")
                 ELSE Return([k \in 1..Len(gl) |-> GameRow(gl[k])])

\* get_probable_pitchers after its fetch_json call (lines 36-42)
probable_pitchers(d) ==
    LET pp == Get(Get(d, "gameData", EmptyMap), "probablePitchers", EmptyMap)
    IN  [home |-> GetOpt(Get(pp, "home", EmptyMap), "id"),
         away |-> GetOpt(Get(pp, "away", EmptyMap), "id"),
         home_name |-> Get(Get(pp, "home", EmptyMap), "fullName", "N/A"),
         away_name |-> Get(Get(pp, "away", EmptyMap), "fullName", "N/A")]

\* fetch_stats after its fetch_json call (lines 48-50)
stats_of(d) ==
    IF "stats" \in DOMAIN d /\ d.stats # <<>>
    THEN LET splits == Get(d.stats[1], "splits", <<EmptyMap>>)
         IN  IF splits = <<>> THEN Raise("IndexError")
             ELSE Return(Get(splits[1], "stat", EmptyMap))
    ELSE Return(EmptyMap)

\* fetch_roster after its fetch_json call (line 66)
roster_of(d) ==
    LET r == Get(d, "roster", <<>>)
    IN  IF \E k \in 1..Len(r) : ~HasPath(r[k], <<"person", "id">>)
        THEN Raise("KeyError")
        ELSE Return([k \in 1..Len(r) |-> r[k].person.id])

(***************************************************************************)
(* A decorated resolver: its own cache first, then fetch_json (with its    *)
(* cache), then the body; a raised exception stores nothing.               *)
(***************************************************************************)
\* computed is the body's outcome on what fetch_json returns
Resolve(cache, key, computed) ==
    IF Fresh(cache, key) THEN Return(cache[key].val) ELSE computed
CacheAfter(cache, key, r) ==
    IF Fresh(cache, key) \/ r.exc # "" THEN cache ELSE Put(cache, key, r.val)
ResolveJsonCache(cache, key, url, out) ==
    IF Fresh(cache, key) THEN json_cache ELSE JsonCacheAfter(url, out)
ResolveHttp(cache, key, url) ==
    IF Fresh(cache, key) THEN {} ELSE JsonHttp(url)

(***************************************************************************)
(* What the upstream API may answer.                                       *)
(***************************************************************************)
SelectedDate == "2024-07-04"

TeamJson(id, name) == [team |-> [id |-> id, name |-> name]]
GameJson(pk) ==
    [gamePk |-> pk, teams |-> [away |-> TeamJson(20, "BOS"), home |-> TeamJson(10, "NYY")]]
\* a game entry without its gamePk
BadGameJson == [teams |-> [away |-> TeamJson(20, "BOS"), home |-> TeamJson(10, "NYY")]]
ScheduleJson(gl) == [dates |-> <<[games |-> gl]>>]

\* failed, no date entry, a date entry without games, one game, a doubleheader
ScheduleResponses ==
    {Fail, Ok(EmptyMap), Ok([dates |-> <<>>]), Ok([dates |-> <<EmptyMap>>]),
     Ok(ScheduleJson(<<>>)), Ok(ScheduleJson(<<BadGameJson>>)),
     Ok(ScheduleJson(<<GameJson(1)>>)), Ok(ScheduleJson(<<GameJson(1), GameJson(2)>>))}

PitcherJson(id) == [id |-> id, fullName |-> "P"]
FeedJson(pp) == [gameData |-> [probablePitchers |-> pp]]
\* the home side starts pitcher 101 in every game, the away side 101 + game id
FeedResponses(game_id) ==
    {Fail,
     Ok(FeedJson(EmptyMap)),
     Ok(FeedJson([home |-> PitcherJson(101)])),
     Ok(FeedJson([away |-> PitcherJson(101 + game_id)])),
     Ok(FeedJson([home |-> PitcherJson(101), away |-> PitcherJson(101 + game_id)]))}

StatsJson(stat) == [stats |-> <<[splits |-> <<[stat |-> stat]>>]>>]
NoSplitsJson == [stats |-> <<[splits |-> <<>>]>>]

\* a pitcher without innings, a good one (2.50 / 10.0 / 2.0), a poor one
\* (9.00 / 5.0 / 5.0, below 0 before the clamp), an absurd ERA (above 100)
PitchingStats ==
    {[era |-> BadStr, strikeoutsPer9Inn |-> BadStr, walksPer9Inn |-> BadStr],
     [era |-> Str(2500), strikeoutsPer9Inn |-> Str(10000), walksPer9Inn |-> Str(2000)],
     [era |-> Str(9000), strikeoutsPer9Inn |-> Str(5000), walksPer9Inn |-> Str(5000)],
     [era |-> Str(-1000000), strikeoutsPer9Inn |-> Str(6000), walksPer9Inn |-> Str(3000)]}
PitchingResponses ==
    {Fail, Ok(NoSplitsJson)} \cup {Ok(StatsJson(st)) : st \in PitchingStats}

\* a hitter without at-bats, a good one (.300 / .380 / .500)
HittingStats ==
    {[avg |-> BadStr, obp |-> BadStr, slg |-> BadStr],
     [avg |-> Str(300), obp |-> Str(380), slg |-> Str(500)]}
HittingResponses ==
    {Fail, Ok(NoSplitsJson)} \cup {Ok(StatsJson(st)) : st \in HittingStats}

RosterJson(team_id, n) == [roster |-> [k \in 1..n |-> [person |-> [id |-> team_id + k]]]]
\* failed, an entry without its person, or the first n players for n in sizes
RosterResponses(team_id, sizes) ==
    (IF 0 \in sizes THEN {Fail, Ok([roster |-> <<EmptyMap>>])} ELSE {})
    \cup {Ok(RosterJson(team_id, n)) : n \in sizes \ {0}}
RosterSizes == {0, 1, 2}

(***************************************************************************)
(* The script run (lines 93-148).                                          *)
(***************************************************************************)
NoPitchers == [home |-> <<>>, away |-> <<>>, home_name |-> "N/A", away_name |-> "N/A"]
NoScores == [home |-> Frac(0, 1), away |-> Frac(0, 1)]
NoRosters == [home |-> <<>>, away |-> <<>>]
NoCall == [fn |-> "none", arg |-> <<>>, ret |-> <<>>]

Init ==
    /\ pc = "start" /\ run = 1 /\ now = 0
    /\ json_cache = <<>> /\ sched_cache = <<>> /\ stats_cache = <<>> /\ roster_cache = <<>>
    /\ data = <<>> /\ games = <<>> /\ i = 1
    /\ pitchers = NoPitchers /\ p_score = NoScores /\ rosters = NoRosters
    /\ hbuf = <<>> /\ h_score = NoScores
    /\ team_rosters = <<>> /\ results = <<>> /\ shown = <<>> /\ progress = <<0, 1>>
    /\ exc = "" /\ http = {} /\ last_call = <<"none">>
    /\ roster_calls = <<>> /\ handled = <<>>
    /\ call = NoCall

caches == <<json_cache, sched_cache, stats_cache, roster_cache>>
locals == <<pitchers, p_score, rosters, hbuf, h_score>>
outputs == <<results, shown, progress, handled>>

\* the position after each step of one loop iteration
PcOf == [p |-> [home |-> "p_home", away |-> "p_away"],
         roster |-> [home |-> "roster_home", away |-> "roster_away"],
         h |-> [home |-> "h_home", away |-> "h_away"]]
After == [p_home |-> "p_away", p_away |-> "roster_home", roster_home |-> "roster_away",
          roster_away |-> "h_home", h_home |-> "h_away", h_away |-> "emit"]

\* the loop moves to the next row, or ends
AfterGame == IF i + 1 > Len(games) THEN "display" ELSE "pitchers"

\* faulty variant: `and` for `or`
SkipGame_both_absent(p) == Falsy(p.home) /\ Falsy(p.away)
\* line 116
SkipGame(p) == Falsy(p.home) \/ Falsy(p.away)

\* faulty variant: no memoization
roster_missing_always(team_id) == TRUE
\* line 104
roster_missing(team_id) == team_id \notin DOMAIN team_rosters

\* lines 94-98: fetch_schedule, then the empty check
FetchSchedule(R) ==
    /\ pc = "start"
    /\ \E out \in R :
        LET key == SelectedDate
            url == ScheduleUrl(key)
            r == Resolve(sched_cache, key, schedule_games(JsonOf(url, out)))
        IN  /\ sched_cache' = CacheAfter(sched_cache, key, r)
            /\ json_cache' = ResolveJsonCache(sched_cache, key, url, out)
            /\ http' = ResolveHttp(sched_cache, key, url)
            /\ data' = IF Fresh(sched_cache, key) THEN <<>> ELSE <<JsonOf(url, out)>>
            /\ last_call' = <<"fetch_schedule", key>>
            /\ exc' = r.exc
            /\ games' = r.val
            /\ pc' = IF r.exc # "" THEN "aborted"
                     ELSE IF r.val = <<>> THEN "stopped" ELSE "pitchers"
    /\ UNCHANGED <<run, now, stats_cache, roster_cache, i, locals, team_rosters,
                   outputs, roster_calls, call>>

\* lines 112-118: the probable pitchers of row i, and the skip
GetPitchers ==
    /\ pc = "pitchers"
    /\ \E out \in FeedResponses(games[i].game_id) :
        LET game == games[i]
            url == FeedUrl(game.game_id)
            p == probable_pitchers(JsonOf(url, out))
        IN  /\ json_cache' = JsonCacheAfter(url, out)
            /\ http' = JsonHttp(url)
            /\ last_call' = <<"get_probable_pitchers", game.game_id>>
            /\ pitchers' = p
            /\ IF SkipGame(p)
               THEN /\ progress' = <<i, Len(games)>>
                    /\ handled' = Append(handled, [game |-> game, home |-> p.home,
                                                   away |-> p.away, emitted |-> FALSE])
                    /\ i' = i + 1
                    /\ pc' = AfterGame
               ELSE /\ pc' = "p_home"
                    /\ UNCHANGED <<progress, handled, i>>
    /\ UNCHANGED <<run, now, sched_cache, stats_cache, roster_cache, data, games,
                   p_score, rosters, hbuf, h_score, team_rosters, results, shown,
                   exc, roster_calls, call>>

\* lines 121-124: one pitcher's career stats and score
PitcherStats(side, R) ==
    /\ pc = PcOf.p[side]
    /\ \E out \in R :
        LET key == <<pitchers[side], "pitching">>
            url == StatsUrl(pitchers[side], "pitching")
            r == Resolve(stats_cache, key, stats_of(JsonOf(url, out)))
        IN  /\ stats_cache' = CacheAfter(stats_cache, key, r)
            /\ json_cache' = ResolveJsonCache(stats_cache, key, url, out)
            /\ http' = ResolveHttp(stats_cache, key, url)
            /\ last_call' = <<"fetch_stats", key>>
            /\ exc' = r.exc
            /\ IF r.exc # ""
               THEN pc' = "aborted" /\ UNCHANGED p_score
               ELSE /\ pc' = After[pc]
                    /\ p_score' = [p_score EXCEPT ![side] = pitcher_score(r.val)]
    /\ UNCHANGED <<run, now, sched_cache, roster_cache, data, games, i, pitchers,
                   rosters, hbuf, h_score, team_rosters, outputs, roster_calls, call>>

\* lines 126-127 with 103-106: one team's roster through the per-run dict
GetCachedRoster(side, sizes) ==
    /\ pc = PcOf.roster[side]
    /\ LET team_id == IF side = "home" THEN games[i].home_id ELSE games[i].away_id
       IN  IF roster_missing(team_id)
           THEN \E out \in RosterResponses(team_id, sizes) :
                LET url == RosterUrl(team_id)
                    r == Resolve(roster_cache, team_id, roster_of(JsonOf(url, out)))
                IN  /\ roster_cache' = CacheAfter(roster_cache, team_id, r)
                    /\ json_cache' = ResolveJsonCache(roster_cache, team_id, url, out)
                    /\ http' = ResolveHttp(roster_cache, team_id, url)
                    /\ last_call' = <<"fetch_roster", team_id>>
                    /\ roster_calls' = Append(roster_calls, team_id)
                    /\ exc' = r.exc
                    /\ IF r.exc # ""
                       THEN pc' = "aborted" /\ UNCHANGED <<team_rosters, rosters>>
                       ELSE /\ pc' = After[pc]
                            /\ team_rosters' = (team_id :> r.val) @@ team_rosters
                            /\ rosters' = [rosters EXCEPT ![side] = r.val]
           ELSE /\ rosters' = [rosters EXCEPT ![side] = team_rosters[team_id]]
                /\ pc' = After[pc]
                /\ http' = {}
                /\ last_call' = <<"get_cached_roster", team_id>>
                /\ UNCHANGED <<roster_cache, json_cache, roster_calls, exc, team_rosters>>
    /\ UNCHANGED <<run, now, sched_cache, stats_cache, data, games, i, pitchers,
                   p_score, hbuf, h_score, outputs, call>>

\* line 71: hitter_score fetches the next player's hitting stats
HitterFetch(side, R) ==
    /\ pc = PcOf.h[side]
    /\ Len(hbuf) < Len(rosters[side])
    /\ \E out \in R :
        LET pid == <<rosters[side][Len(hbuf) + 1]>>
            key == <<pid, "hitting">>
            url == StatsUrl(pid, "hitting")
            r == Resolve(stats_cache, key, stats_of(JsonOf(url, out)))
        IN  /\ stats_cache' = CacheAfter(stats_cache, key, r)
            /\ json_cache' = ResolveJsonCache(stats_cache, key, url, out)
            /\ http' = ResolveHttp(stats_cache, key, url)
            /\ last_call' = <<"fetch_stats", key>>
            /\ exc' = r.exc
            /\ IF r.exc # ""
               THEN pc' = "aborted" /\ UNCHANGED hbuf
               ELSE pc' = pc /\ hbuf' = Append(hbuf, r.val)
    /\ UNCHANGED <<run, now, sched_cache, roster_cache, data, games, i, pitchers,
                   p_score, rosters, h_score, team_rosters, outputs, roster_calls, call>>

\* lines 128-129: the team's score once every player's stats are in
HitterScore(side) ==
    /\ pc = PcOf.h[side]
    /\ Len(hbuf) = Len(rosters[side])
    /\ h_score' = [h_score EXCEPT ![side] = hitter_score(hbuf)]
    /\ hbuf' = <<>>
    /\ pc' = After[pc]
    /\ http' = {}
    /\ last_call' = <<"hitter_score", side>>
    /\ UNCHANGED <<run, now, caches, data, games, i, pitchers, p_score, rosters,
                   team_rosters, outputs, exc, roster_calls, call>>

\* lines 131-142: the record of row i
Record(game) ==
    LET nrfi_prob == calculate_nrfi_probability(p_score.home, p_score.away,
                                                h_score.home, h_score.away)
    IN  [matchup |-> <<game.away, " @ ", game.home>>,
         away_pitcher_score |-> round2(p_score.away),
         home_pitcher_score |-> round2(p_score.home),
         away_hitter_score |-> round2(h_score.away),
         home_hitter_score |-> round2(h_score.home),
         nrfi_probability |-> nrfi_prob,
         prediction |-> prediction(nrfi_prob)]

\* lines 131-144
Emit ==
    /\ pc = "emit"
    /\ results' = Append(results, Record(games[i]))
    /\ handled' = Append(handled, [game |-> games[i], home |-> pitchers.home,
                                   away |-> pitchers.away, emitted |-> TRUE])
    /\ progress' = <<i, Len(games)>>
    /\ i' = i + 1
    /\ pc' = AfterGame
    /\ http' = {}
    /\ last_call' = <<"none">>
    /\ UNCHANGED <<run, now, caches, data, games, locals, team_rosters, shown, exc,
                   roster_calls, call>>

\* the orders of s
Perms(s) ==
    LET n == Len(s)
        bij == {f \in [1..n -> 1..n] : \A a, b \in 1..n : f[a] = f[b] => a = b}
    IN  {[k \in 1..n |-> s[f[k]]] : f \in bij}

\* faulty variant: ascending=True
Ascending(s) ==
    \A k \in 1..(Len(s) - 1) : s[k].nrfi_probability <= s[k + 1].nrfi_probability
\* ascending=False
Descending(s) ==
    \A k \in 1..(Len(s) - 1) : s[k].nrfi_probability >= s[k + 1].nrfi_probability

\* df.sort_values(by="NRFI Probability (%)", ascending=False): the default sort
\* is not stable, so equal probabilities may come out in either order
sort_values(rs) == {s \in Perms(rs) : Descending(s)}

\* lines 147-148: a frame built from no rows has no column to sort by
Display ==
    /\ pc = "display"
    /\ exc' = IF results = <<>> THEN "KeyError" ELSE ""
    /\ pc' = IF results = <<>> THEN "aborted" ELSE "done"
    /\ \E s \in (IF results = <<>> THEN {<<>>} ELSE sort_values(results)) : shown' = s
    /\ http' = {}
    /\ last_call' = <<"none">>
    /\ UNCHANGED <<run, now, caches, data, games, i, locals, team_rosters, results,
                   progress, handled, roster_calls, call>>

Next ==
    \/ FetchSchedule(ScheduleResponses)
    \/ GetPitchers
    \/ PitcherStats("home", PitchingResponses)
    \/ PitcherStats("away", PitchingResponses)
    \/ GetCachedRoster("home", RosterSizes)
    \/ GetCachedRoster("away", RosterSizes)
    \/ HitterFetch("home", HittingResponses)
    \/ HitterFetch("away", HittingResponses)
    \/ HitterScore("home")
    \/ HitterScore("away")
    \/ Emit
    \/ Display

\* one script run from a cold start
Spec == Init /\ [][Next]_vars

(***************************************************************************)
(* Reruns.  Streamlit runs the script again on every interaction; the      *)
(* st.cache_data stores outlive a run, the script's own names do not.      *)
(***************************************************************************)
Rerun ==
    /\ pc \in {"done", "stopped", "aborted"}
    /\ run < MaxRuns
    /\ run' = run + 1
    /\ pc' = "start"
    /\ data' = <<>> /\ games' = <<>> /\ i' = 1
    /\ pitchers' = NoPitchers /\ p_score' = NoScores /\ rosters' = NoRosters
    /\ hbuf' = <<>> /\ h_score' = NoScores
    /\ team_rosters' = <<>> /\ results' = <<>> /\ shown' = <<>> /\ progress' = <<0, 1>>
    /\ exc' = "" /\ http' = {} /\ last_call' = <<"none">>
    /\ roster_calls' = <<>> /\ handled' = <<>>
    /\ UNCHANGED <<now, caches, call>>

Tick ==
    /\ now < MaxTicks * TickSeconds
    /\ now' = now + TickSeconds
    /\ UNCHANGED <<pc, run, caches, data, games, i, locals, team_rosters, outputs,
                   exc, http, last_call, roster_calls, call>>

\* an upstream that is up and well-formed: one game, only the live feed varies
SteadySchedule == {Ok(ScheduleJson(<<GameJson(1)>>))}
SteadyPitching ==
    {Ok(StatsJson([era |-> Str(2500), strikeoutsPer9Inn |-> Str(10000),
                   walksPer9Inn |-> Str(2000)]))}
SteadyHitting ==
    {Ok(StatsJson([avg |-> Str(300), obp |-> Str(380), slg |-> Str(500)]))}
SteadyRosterSizes == {1}

NextCache ==
    \/ FetchSchedule(SteadySchedule)
    \/ GetPitchers
    \/ PitcherStats("home", SteadyPitching)
    \/ PitcherStats("away", SteadyPitching)
    \/ GetCachedRoster("home", SteadyRosterSizes)
    \/ GetCachedRoster("away", SteadyRosterSizes)
    \/ HitterFetch("home", SteadyHitting)
    \/ HitterFetch("away", SteadyHitting)
    \/ HitterScore("home")
    \/ HitterScore("away")
    \/ Emit
    \/ Display
    \/ Rerun
    \/ Tick

\* script runs one after another while the clock advances
SpecCache == Init /\ [][NextCache]_vars

(***************************************************************************)
(* The scoring functions on their own: one evaluation on a sampled input.  *)
(***************************************************************************)
Absent == [t |-> "absent", v |-> 0]

\* the mapping with the fields whose value is not Absent
MkStat(names, vals) ==
    [f \in {names[k] : k \in {n \in 1..Len(names) : vals[n] # Absent}} |->
        vals[CHOOSE k \in 1..Len(names) : names[k] = f]]

EraSamples ==
    {Absent, Num(5000), Str(2500), Str(0), Str(1000000), Str(-1000000), BadStr, Null,
     InfStr(1), InfStr(-1), NanStr}
K9Samples ==
    {Absent, Num(6000), Str(10000), Str(12250), Str(-1000000), BadStr, InfStr(1), NanStr}
BB9Samples == {Absent, Num(3000), Str(2000), Str(1000000), BadStr, InfStr(-1)}

HitterSamples ==
    {EmptyMap,
     [avg |-> BadStr, obp |-> BadStr, slg |-> BadStr],
     [avg |-> Str(300), obp |-> Str(380), slg |-> Str(500)],
     [avg |-> Str(400), obp |-> Str(500), slg |-> Str(800)],
     [avg |-> Str(200), obp |-> Str(280), slg |-> Str(310)],
     [avg |-> Num(1000000)],
     [obp |-> Null],
     [slg |-> NanStr]}

ScoreSamples ==
    {Frac(0, 1), Frac(35946, 1), Frac(44054, 1), Frac(50000, 1), Frac(67000, 1),
     Frac(100000, 1), Frac(15800, 2), Frac(69200, 3)}

ScorePitcher ==
    /\ call = NoCall
    /\ \E e \in EraSamples, k \in K9Samples, b \in BB9Samples :
        LET stat == MkStat(<<"era", "strikeoutsPer9Inn", "walksPer9Inn">>, <<e, k, b>>)
        IN  call' = [fn |-> "pitcher_score", arg |-> stat, ret |-> pitcher_score(stat)]
    /\ UNCHANGED <<pc, run, now, caches, data, games, i, locals, team_rosters, outputs,
                   exc, http, last_call, roster_calls>>

ScoreHitters ==
    /\ call = NoCall
    /\ \E n \in 0..MaxPlayers :
        \E stats \in [1..n -> HitterSamples] :
            call' = [fn |-> "hitter_score", arg |-> stats, ret |-> hitter_score(stats)]
    /\ UNCHANGED <<pc, run, now, caches, data, games, i, locals, team_rosters, outputs,
                   exc, http, last_call, roster_calls>>

\* lines 131-132 on four scores
Predict ==
    /\ call = NoCall
    /\ \E p1, p2, h1, h2 \in ScoreSamples :
        LET nrfi_prob == calculate_nrfi_probability(p1, p2, h1, h2)
        IN  call' = [fn |-> "predict", arg |-> <<p1, p2, h1, h2>>,
                     ret |-> [nrfi_probability |-> nrfi_prob,
                              prediction |-> prediction(nrfi_prob)]]
    /\ UNCHANGED <<pc, run, now, caches, data, games, i, locals, team_rosters, outputs,
                   exc, http, last_call, roster_calls>>

NextScore == ScorePitcher \/ ScoreHitters \/ Predict

SpecScore == Init /\ [][NextScore]_vars

(***************************************************************************)
(* Properties.                                                             *)
(***************************************************************************)
InLoop == pc \in {"pitchers", "p_home", "p_away", "roster_home", "roster_away",
                  "h_home", "h_away", "emit"}
\* the loop has run through every row
LoopOver == pc \in {"display", "done"} \/ (pc = "aborted" /\ i > Len(games))
EmittedRows == SelectSeq(handled, LAMBDA h : h.emitted)
SkippedRows == SelectSeq(handled, LAMBDA h : ~h.emitted)

C2_NeverAborts == pc # "aborted"

NoDateEntry(d) == "dates" \notin DOMAIN d \/ d.dates = <<>>
NoGamesIn(d) == NoDateEntry(d) \/ Get(d.dates[1], "games", <<>>) = <<>>

\* C3: a schedule response without a date entry, or whose first date entry
\* has no games, gives an empty schedule and the "no games" stop, never an
\* exception.
C3_NoGamesNeverRaises ==
    (data # <<>> /\ NoGamesIn(data[1])) => (pc = "stopped" /\ games = <<>> /\ exc = "")

\* C4: every call of get_probable_pitchers requests the live feed over HTTP.
C4_PitchersFetchedFresh ==
    last_call[1] = "get_probable_pitchers" => FeedUrl(last_call[2]) \in http

Unparsable(v) == v.t \in {"bad", "null"}
SomeUnparsable(stat) == \E f \in DOMAIN stat : Unparsable(stat[f])
PitcherDefaults == [era |-> 5000, strikeoutsPer9Inn |-> 6000, walksPer9Inn |-> 3000]
AtDefaults(stat) ==
    \A f \in DOMAIN stat : stat[f].t \in {"num", "str"} /\ stat[f].v = PitcherDefaults[f]
Finite(stat) == \A f \in DOMAIN stat : stat[f].t \in {"num", "str"}
ValueOr(stat, f) == IF f \in DOMAIN stat THEN stat[f].v ELSE PitcherDefaults[f]
Fifty == Frac(50000, 1)

\* C5 as stated: absent or default fields score 0, and 50 is returned exactly
\* when some present field fails to parse.
C5_FiftyIffUnparsable ==
    call.fn = "pitcher_score" =>
        /\ AtDefaults(call.arg) => call.ret = Frac(0, 1)
        /\ call.ret = Fifty <=> SomeUnparsable(call.arg)

\* C5 amended: absent or default fields score 0; a present field that fails
\* to parse gives 50; with every present field parsing, 50 comes out only
\* when the formula itself is worth 50.
C5_FiftyOnUnparsable ==
    call.fn = "pitcher_score" =>
        /\ AtDefaults(call.arg) => call.ret = Frac(0, 1)
        /\ SomeUnparsable(call.arg) => call.ret = Fifty
        /\ (call.ret = Fifty /\ ~SomeUnparsable(call.arg)) =>
              /\ Finite(call.arg)
              /\ (5000 - ValueOr(call.arg, "era")) * 12
                   + (ValueOr(call.arg, "strikeoutsPer9Inn") - 6000) * 8
                   + (3000 - ValueOr(call.arg, "walksPer9Inn")) * 5 = 50000

\* every present field parses and the score is still 50
C5_Witness ==
    /\ call.fn = "pitcher_score"
    /\ call.arg # EmptyMap /\ ~SomeUnparsable(call.arg)
    /\ call.ret = Fifty

RECURSIVE SumOver(_, _)
SumOver(S, f) ==
    IF S = {} THEN 0
    ELSE LET x == CHOOSE y \in S : TRUE IN f[x] + SumOver(S \ {x}, f)

\* C6: the mean of the clamped values of the players whose three fields all
\* parse; the others count neither in the sum nor in the count; 50 when no
\* player is left.
C6_MeanOverParsedPlayers ==
    call.fn = "hitter_score" =>
        LET stats == call.arg
            parsed == {k \in 1..Len(stats) : ~SomeUnparsable(stats[k])}
            value == [k \in parsed |-> hitter_val(stats[k]).val]
        IN  /\ \A k \in parsed : value[k] \in 0..100000
            /\ IF parsed = {} THEN call.ret = Fifty
               ELSE call.ret = Frac(SumOver(parsed, value), Cardinality(parsed))

\* three players, one of them unparsable: the mean is over two
C6_Witness ==
    /\ call.fn = "hitter_score" /\ Len(call.arg) = 3
    /\ Cardinality({k \in 1..3 : SomeUnparsable(call.arg[k])}) = 1
    /\ call.ret.den = 2 /\ call.ret.num > 0

ScoreInRange(q) == q.den > 0 /\ 0 <= q.num /\ q.num <= 100000 * q.den

\* C7: the four scores and the probability of every record lie in [0, 100].
C7_ScoresInRange ==
    /\ \A side \in {"home", "away"} : ScoreInRange(p_score[side]) /\ ScoreInRange(h_score[side])
    /\ \A k \in 1..Len(results) :
          /\ results[k].away_pitcher_score \in 0..10000
          /\ results[k].home_pitcher_score \in 0..10000
          /\ results[k].away_hitter_score \in 0..10000
          /\ results[k].home_hitter_score \in 0..10000
          /\ results[k].nrfi_probability \in 0..10000

\* a record whose home pitcher is clamped to 100 and whose away pitcher to 0
C7_Witness ==
    /\ results # <<>>
    /\ {<<<<101>>, "pitching">>, <<<<102>>, "pitching">>} \subseteq DOMAIN stats_cache
    /\ Get(stats_cache[<<<<101>>, "pitching">>].val, "era", Null) = Str(-1000000)
    /\ Get(stats_cache[<<<<102>>, "pitching">>].val, "era", Null) = Str(9000)
    /\ results[1].home_pitcher_score = 10000
    /\ results[1].away_pitcher_score = 0
    /\ results[1].home_hitter_score > 0

\* C8: NRFI above 60, YRFI below 40, Toss-up from 40 to 60, both ends
\* included; one label for every probability.
C8_LabelByThreshold ==
    call.fn = "predict" =>
        LET prob == call.ret.nrfi_probability
            label == call.ret.prediction
        IN  /\ prob \in 0..10000
            /\ label \in {"NRFI", "YRFI", "Toss-up"}
            /\ label = "NRFI" <=> prob > 6000
            /\ label = "YRFI" <=> prob < 4000
            /\ label = "Toss-up" <=> (4000 <= prob /\ prob <= 6000)

\* a probability of exactly 60
C8_Witness ==
    /\ call.fn = "predict"
    /\ call.ret.nrfi_probability = 6000
    /\ call.ret.prediction = "Toss-up"

Count(s, r) == Cardinality({k \in 1..Len(s) : s[k] = r})

\* C9: what is displayed is the emitted records, each as often as emitted,
\* in non-increasing order of probability; results only grows, by appending.
C9_SortedPermutation ==
    /\ [](pc = "done" =>
            /\ Len(shown) = Len(results)
            /\ \A k \in 1..Len(results) : Count(shown, results[k]) = Count(results, results[k])
            /\ \A k \in 1..(Len(shown) - 1) :
                  shown[k].nrfi_probability >= shown[k + 1].nrfi_probability)
    /\ [][/\ Len(results') \in {Len(results), Len(results) + 1}
          /\ SubSeq(results', 1, Len(results)) = results]_vars

\* two records emitted in increasing order of probability
C9_Witness ==
    /\ pc = "done" /\ Len(results) = 2
    /\ results[1].nrfi_probability < results[2].nrfi_probability

TeamsOf(game) == {game.home_id, game.away_id}
\* teams of the games that got past the skip
ActiveTeams ==
    UNION {TeamsOf(handled[k].game) : k \in {n \in 1..Len(handled) : handled[n].emitted}}
    \cup (IF pc \notin {"start", "pitchers", "display", "done", "stopped"} /\ i <= Len(games)
          THEN TeamsOf(games[i]) ELSE {})

\* C10: fetch_roster is called at most once per team in a run, and only for
\* teams of games that are not skipped; an entry of team_rosters stays as it
\* was stored.
C10_RosterOncePerTeam ==
    /\ [](/\ \A a, b \in 1..Len(roster_calls) : roster_calls[a] = roster_calls[b] => a = b
          /\ \A a \in 1..Len(roster_calls) : roster_calls[a] \in ActiveTeams
          /\ DOMAIN team_rosters \subseteq {roster_calls[a] : a \in 1..Len(roster_calls)})
    /\ [][\A t \in DOMAIN team_rosters :
            t \in DOMAIN team_rosters' /\ team_rosters'[t] = team_rosters[t]]_vars

\* the second game of a doubleheader has both rosters without a new call
C10_Witness ==
    /\ Len(handled) = 1 /\ handled[1].emitted
    /\ i = 2 /\ pc = "h_home"
    /\ Len(roster_calls) = 2

====
